---- MODULE Spec2Model ----
(***************************************************************************)
(* Dialogue-turn orchestration of paperchat/ui/chat.py.                    *)
(*                                                                         *)
(* One Streamlit script run executes render_main_content from top to       *)
(* bottom; st.session_state survives between runs.  The variables below    *)
(* are the session-state entries the module reads or writes, the locals    *)
(* of render_chat_interface that carry a value across one of its blocking  *)
(* calls, and the position of the running script (pc).                     *)
(***************************************************************************)
EXTENDS Integers, Sequences, FiniteSets, TLC

VARIABLES
    messages,              \* st.session_state.messages
    config,                \* st.session_state.config
    rag_pipeline,          \* st.session_state.rag_pipeline
    snapshot,              \* configuration the pipeline was last built for
    processed_documents,   \* st.session_state.processed_documents (hash -> data)
    active_document_hash,  \* st.session_state.active_document_hash
    screen,                \* what render_main_content drew in the last run
    pc,                    \* position of the script run
    user_query,            \* local of render_chat_interface
    llm_response,          \* local of render_chat_interface
    retrieved_chunks,      \* local of render_chat_interface
    accepted,              \* history: queries accepted on the active document
    dropped,               \* history: turns cleared by the last document switch
    log_at_start,          \* history: messages when the running turn was accepted
    stale_at_start,        \* history: config # snapshot when the turn was accepted
    checks,                \* history: config checks made by the running turn
    calls,                 \* history: rag_pipeline.run calls of the running turn
    show_api_setup,        \* st.session_state.show_api_setup
    openai_configured,     \* local of render_api_key_setup
    anthropic_configured   \* local of render_api_key_setup

vars == <<messages, config, rag_pipeline, snapshot, processed_documents,
          active_document_hash, screen, pc, user_query, llm_response,
          retrieved_chunks, accepted, dropped, log_at_start, stale_at_start, checks, calls,
          show_api_setup, openai_configured, anthropic_configured>>

session == <<config, rag_pipeline, snapshot, processed_documents, active_document_hash>>
locals  == <<user_query, llm_response, retrieved_chunks>>
history == <<dropped, log_at_start, stale_at_start, checks, calls>>
setup   == <<show_api_setup, openai_configured, anthropic_configured>>

(***************************************************************************)
(* Bounds and input sets                                                   *)
(***************************************************************************)
\* exchanges kept in one conversation log before no further query is fed in
MaxTurns == 2

None == "<None>"

Queries == {"q1", "q2"}

\* what st.chat_input can hand back when nothing was submitted
NoQuery == {None, ""}

DocHashes == {"d1", "d2"}

DocData(h) == "data:" \o h

\* a configuration without a top_k entry, and one with it
Configs ==
    { [model_id |-> "m1"],
      [model_id |-> "m1", top_k |-> 3] }

\* str(e) of the exceptions the collaborators raise
ErrorTexts == {"", "timeout"}

Digits == {"1", "2", "9"}

DigitVal(d) == IF d = "1" THEN 1 ELSE IF d = "2" THEN 2 ELSE 9

Passage(i) == [id |-> i, text |-> IF i = 1 THEN "t1" ELSE "t2"]

EvidenceSets == { <<>>, <<Passage(2), Passage(1)>> }

\* answers as character sequences: a resolvable marker; an unknown identifier
\* and a repeated one; malformed markers only
RawAnswers ==
    { <<"a", "[", "1", "]">>,
      <<"[", "9", "]", "[", "1", "]", "[", "2", "]", "[", "1", "]">>,
      <<"[", "x", "]", "[", "1">> }

(***************************************************************************)
(* Helpers                                                                 *)
(***************************************************************************)
Last(s) == s[Len(s)]

IsPrefix(s, t) == Len(s) <= Len(t) /\ SubSeq(t, 1, Len(s)) = s

\* Python truthiness of the value st.chat_input returned
Truthy(q) == q # None /\ q # ""

DefaultTopK == 5

\* variant: the default is used whatever the configuration holds
TopK_AlwaysDefault(c) == DefaultTopK

\* config.get("top_k", 5)
TopK(c) == IF "top_k" \in DOMAIN c THEN c.top_k ELSE DefaultTopK

UserTurn(q) == [role |-> "user", content |-> q]

\* variant: the message is the exception text alone
ErrorMessage_NoPrefix(e) == e

\* f"Error: {e!s}"
ErrorMessage(e) == "Error: " \o e

\* variant: the error turn has the shape of an answered turn
FaultTurn_WithRaw(e) ==
    [role |-> "assistant", content |-> ErrorMessage(e), raw_content |-> <<>>,
     sources |-> <<>>]

FaultTurn(e) == [role |-> "assistant", content |-> ErrorMessage(e), sources |-> <<>>]

AssistantTurn(html, raw, cited) ==
    [role |-> "assistant", content |-> html, raw_content |-> raw, sources |-> cited]

(***************************************************************************)
(* Citation reconciliation (paperchat.utils.formatting)                    *)
(***************************************************************************)
Ids(chunks) == { chunks[i].id : i \in 1..Len(chunks) }

ChunkById(chunks, id) == chunks[CHOOSE i \in 1..Len(chunks) : chunks[i].id = id]

\* a well-formed marker "[d]" starts at position i of text
MarkerAt(text, i) ==
    /\ i + 2 <= Len(text)
    /\ text[i] = "["
    /\ text[i + 1] \in Digits
    /\ text[i + 2] = "]"

MarkerToken(d) == "[" \o d \o "]"

AnchorToken(d) == "<cite:" \o d \o ">"

MarkerTokens == { MarkerToken(d) : d \in Digits }

RECURSIVE reconcile(_, _, _, _, _)
\* left-to-right scan from position i; out is the text so far, cited the
\* passages cited so far
reconcile(text, chunks, i, out, cited) ==
    IF i > Len(text) THEN <<out, cited>>
    ELSE IF MarkerAt(text, i)
         THEN LET id == DigitVal(text[i + 1])
              IN  IF id \in Ids(chunks)
                  THEN reconcile(text, chunks, i + 3,
                                 Append(out, MarkerToken(text[i + 1])),
                                 IF id \in Ids(cited) THEN cited
                                 ELSE Append(cited, ChunkById(chunks, id)))
                  ELSE reconcile(text, chunks, i + 3, out, cited)
         ELSE reconcile(text, chunks, i + 1, Append(out, text[i]), cited)

process_citations(text, chunks) == reconcile(text, chunks, 1, <<>>, <<>>)

format_response_with_citations(processed) ==
    [ i \in 1..Len(processed) |->
        IF processed[i] \in MarkerTokens
        THEN AnchorToken(CHOOSE d \in Digits : MarkerToken(d) = processed[i])
        ELSE processed[i] ]

(***************************************************************************)
(* Initial state: a fresh session                                          *)
(***************************************************************************)
Init ==
    /\ messages = <<>>
    /\ config \in Configs
    /\ rag_pipeline = [built_from |-> config]
    /\ snapshot = config
    /\ processed_documents = [h \in {} |-> DocData(h)]
    /\ active_document_hash = None
    /\ screen = "none"
    /\ pc = "Idle"
    /\ user_query = None
    /\ llm_response = <<>>
    /\ retrieved_chunks = <<>>
    /\ accepted = 0
    /\ dropped = 0
    /\ log_at_start = <<>>
    /\ stale_at_start = FALSE
    /\ checks = 0
    /\ calls = <<>>
    /\ show_api_setup = TRUE
    /\ openai_configured = FALSE
    /\ anthropic_configured = FALSE

(***************************************************************************)
(* The session's collaborators: sidebar and settings, between script runs  *)
(***************************************************************************)
\* a PDF is uploaded and processed
ProcessDocument ==
    /\ pc = "Idle"
    /\ \E h \in DocHashes \ DOMAIN processed_documents :
           processed_documents' =
               [d \in DOMAIN processed_documents \cup {h} |-> DocData(d)]
    /\ UNCHANGED setup
    /\ UNCHANGED <<messages, config, rag_pipeline, snapshot, active_document_hash,
                   screen, pc, locals, accepted, history>>

\* variant: the conversation is carried over to the other document
SwitchDocument_KeepLog ==
    /\ pc = "Idle"
    /\ \E h \in DOMAIN processed_documents :
           /\ h # active_document_hash
           /\ active_document_hash' = h
    /\ accepted' = 0
    /\ dropped' = 0
    /\ UNCHANGED setup
    /\ UNCHANGED <<messages, config, rag_pipeline, snapshot, processed_documents,
                   screen, pc, locals, log_at_start, stale_at_start, checks, calls>>

\* another document is selected: the conversation starts over
SwitchDocument ==
    /\ pc = "Idle"
    /\ \E h \in DOMAIN processed_documents :
           /\ h # active_document_hash
           /\ active_document_hash' = h
    /\ messages' = <<>>
    /\ accepted' = 0
    /\ dropped' = Len(messages)
    /\ UNCHANGED setup
    /\ UNCHANGED <<config, rag_pipeline, snapshot, processed_documents,
                   screen, pc, locals, log_at_start, stale_at_start, checks, calls>>

\* the settings change the provider, the model or top_k
ChangeConfig ==
    /\ pc = "Idle"
    /\ \E c \in Configs : c # config /\ config' = c
    /\ UNCHANGED setup
    /\ UNCHANGED <<messages, rag_pipeline, snapshot, processed_documents,
                   active_document_hash, screen, pc, locals, accepted, history>>

\* check_model_config_changes(): rebuild the pipeline when the configuration
\* is not the one it was built for
check_model_config_changes ==
    IF config # snapshot
    THEN /\ rag_pipeline' = [built_from |-> config]
         /\ snapshot' = config
    ELSE UNCHANGED <<rag_pipeline, snapshot>>

(***************************************************************************)
(* render_api_key_setup                                                    *)
(***************************************************************************)
main == <<messages, session, screen, locals, accepted, history>>

\* a key is saved in one of the tabs: on_save_callback reruns the script
ApiKeySaved ==
    /\ pc = "Idle"
    /\ show_api_setup
    /\ UNCHANGED <<pc, setup, main>>

\* both tabs are drawn; render_api_key_manager reports each provider
DrawApiKeyTabs ==
    /\ pc = "Idle"
    /\ show_api_setup
    /\ \E o \in BOOLEAN, a \in BOOLEAN :
           /\ openai_configured' = o
           /\ anthropic_configured' = a
    /\ pc' = "SetupButton"
    /\ UNCHANGED <<show_api_setup, main>>

\* variant: the button is drawn whether or not a provider is configured
ContinuePressed_Unguarded ==
    /\ pc = "SetupButton"
    /\ show_api_setup' = FALSE
    /\ openai_configured' = FALSE
    /\ anthropic_configured' = FALSE
    /\ pc' = "Idle"
    /\ UNCHANGED main

\* a provider is configured and "Continue to PaperChat" is pressed
ContinuePressed ==
    /\ pc = "SetupButton"
    /\ openai_configured \/ anthropic_configured
    /\ show_api_setup' = FALSE
    /\ openai_configured' = FALSE
    /\ anthropic_configured' = FALSE
    /\ pc' = "Idle"
    /\ UNCHANGED main

\* no provider is configured, or the button is not pressed
SetupStays ==
    /\ pc = "SetupButton"
    /\ openai_configured' = FALSE
    /\ anthropic_configured' = FALSE
    /\ pc' = "Idle"
    /\ UNCHANGED <<show_api_setup, main>>

(***************************************************************************)
(* render_main_content                                                     *)
(***************************************************************************)
\* the main content is drawn once the API key setup screen is dismissed
MainContent == ~show_api_setup

\* variant: the chat is drawn as soon as a document is processed
ChatShown_AnyDocument == DOMAIN processed_documents # {}

ChatShown ==
    /\ DOMAIN processed_documents # {}
    /\ active_document_hash # None

RenderWelcome ==
    /\ pc = "Idle"
    /\ MainContent
    /\ DOMAIN processed_documents = {}
    /\ screen' = "welcome"
    /\ UNCHANGED setup
    /\ UNCHANGED <<messages, session, pc, locals, accepted, history>>

RenderSelectInfo ==
    /\ pc = "Idle"
    /\ MainContent
    /\ DOMAIN processed_documents # {}
    /\ active_document_hash = None
    /\ screen' = "select_document"
    /\ UNCHANGED setup
    /\ UNCHANGED <<messages, session, pc, locals, accepted, history>>

(***************************************************************************)
(* render_chat_interface                                                   *)
(***************************************************************************)
\* variant: only None counts as no query, an empty text is appended
RenderChatNoQuery_EmptyAppended ==
    /\ pc = "Idle"
    /\ MainContent
    /\ ChatShown
    /\ Len(messages) < 2 * MaxTurns
    /\ \E q \in NoQuery :
           /\ user_query' = q
           /\ messages' = IF q = None THEN messages ELSE Append(messages, UserTurn(q))
    /\ screen' = "chat"
    /\ UNCHANGED setup
    /\ UNCHANGED <<session, pc, llm_response, retrieved_chunks, accepted, history>>

\* st.chat_input returned nothing to act on
RenderChatNoQuery ==
    /\ pc = "Idle"
    /\ MainContent
    /\ ChatShown
    /\ \E q \in NoQuery : ~Truthy(q) /\ user_query' = q
    /\ screen' = "chat"
    /\ UNCHANGED setup
    /\ UNCHANGED <<messages, session, pc, llm_response, retrieved_chunks, accepted, history>>

\* variant: the user's turn is not appended when the query is accepted
SubmitQuery_NoAppend ==
    /\ pc = "Idle"
    /\ MainContent
    /\ ChatShown
    /\ Len(messages) < 2 * MaxTurns
    /\ \E q \in Queries : Truthy(q) /\ user_query' = q
    /\ accepted' = accepted + 1
    /\ log_at_start' = messages
    /\ stale_at_start' = (config # snapshot)
    /\ checks' = 0
    /\ calls' = <<>>
    /\ screen' = "chat"
    /\ pc' = "ConfigCheck"
    /\ UNCHANGED setup
    /\ UNCHANGED <<messages, session, llm_response, retrieved_chunks, dropped>>

\* variant: a query is taken whatever the running script is doing
SubmitQuery_Reentrant ==
    /\ MainContent
    /\ ChatShown
    /\ Len(messages) < 2 * MaxTurns
    /\ \E q \in Queries :
           /\ Truthy(q)
           /\ user_query' = q
           /\ messages' = Append(messages, UserTurn(q))
    /\ accepted' = accepted + 1
    /\ log_at_start' = messages
    /\ stale_at_start' = (config # snapshot)
    /\ checks' = 0
    /\ calls' = <<>>
    /\ screen' = "chat"
    /\ pc' = "ConfigCheck"
    /\ UNCHANGED setup
    /\ UNCHANGED <<session, llm_response, retrieved_chunks, dropped>>

\* a query was submitted: its turn is appended, then the try block is entered
SubmitQuery ==
    /\ pc = "Idle"
    /\ MainContent
    /\ ChatShown
    /\ Len(messages) < 2 * MaxTurns
    /\ \E q \in Queries :
           /\ Truthy(q)
           /\ user_query' = q
           /\ messages' = Append(messages, UserTurn(q))
    /\ accepted' = accepted + 1
    /\ log_at_start' = messages
    /\ stale_at_start' = (config # snapshot)
    /\ checks' = 0
    /\ calls' = <<>>
    /\ screen' = "chat"
    /\ pc' = "ConfigCheck"
    /\ UNCHANGED setup
    /\ UNCHANGED <<session, llm_response, retrieved_chunks, dropped>>

\* variant: the error is shown but not stored
ExceptHandler_NotStored(e) ==
    /\ messages' = messages
    /\ pc' = "Faulted"

\* variant: the error turn takes the place of the user's turn
ExceptHandler_Overwrite(e) ==
    /\ messages' = Append(SubSeq(messages, 1, Len(messages) - 1), FaultTurn(e))
    /\ pc' = "Faulted"

\* except Exception as e: the error becomes the assistant's turn
ExceptHandler(e) ==
    /\ messages' = Append(messages, FaultTurn(e))
    /\ pc' = "Faulted"

\* variant: the turn goes on to retrieval without the configuration check
ConfigCheckOk_Skipped ==
    /\ pc = "ConfigCheck"
    /\ pc' = "Retrieving"
    /\ UNCHANGED setup
    /\ UNCHANGED <<messages, session, screen, locals, accepted, history>>

ConfigCheckOk ==
    /\ pc = "ConfigCheck"
    /\ check_model_config_changes
    /\ checks' = checks + 1
    /\ pc' = "Retrieving"
    /\ UNCHANGED setup
    /\ UNCHANGED <<messages, config, processed_documents, active_document_hash,
                   screen, locals, accepted, dropped, log_at_start, stale_at_start, calls>>

ConfigCheckRaises ==
    /\ pc = "ConfigCheck"
    /\ \E e \in ErrorTexts : ExceptHandler(e)
    /\ checks' = checks + 1
    /\ UNCHANGED setup
    /\ UNCHANGED <<session, screen, locals, accepted, dropped, log_at_start, stale_at_start, calls>>

\* variant: the call asks for a streamed answer
RunCall_Streaming ==
    [ pipeline      |-> rag_pipeline,
      query         |-> user_query,
      document_data |-> processed_documents[active_document_hash],
      top_k         |-> TopK(config),
      stream        |-> TRUE ]

\* the arguments of rag_pipeline.run(...)
RunCall ==
    [ pipeline      |-> rag_pipeline,
      query         |-> user_query,
      document_data |-> processed_documents[active_document_hash],
      top_k         |-> TopK(config),
      stream        |-> FALSE ]

\* variant: the default top_k is written back into the configuration
RunReturns_SetDefault ==
    /\ pc = "Retrieving"
    /\ calls' = Append(calls, RunCall)
    /\ \E answer \in RawAnswers, chunks \in EvidenceSets :
           /\ llm_response' = answer
           /\ retrieved_chunks' = chunks
    /\ config' = [model_id |-> config.model_id, top_k |-> TopK(config)]
    /\ pc' = "Reconciling"
    /\ UNCHANGED setup
    /\ UNCHANGED <<messages, rag_pipeline, snapshot, processed_documents,
                   active_document_hash, screen, user_query, accepted, dropped,
                   log_at_start, stale_at_start, checks>>

RunReturns ==
    /\ pc = "Retrieving"
    /\ calls' = Append(calls, RunCall)
    /\ \E answer \in RawAnswers, chunks \in EvidenceSets :
           /\ llm_response' = answer
           /\ retrieved_chunks' = chunks
    /\ pc' = "Reconciling"
    /\ UNCHANGED setup
    /\ UNCHANGED <<messages, session, screen, user_query, accepted, dropped,
                   log_at_start, stale_at_start, checks>>

\* variant: a failed rag_pipeline.run is called once more before giving up
RunRaises_Retry ==
    /\ pc = "Retrieving"
    /\ calls' = Append(calls, RunCall)
    /\ IF calls = <<>>
       THEN UNCHANGED <<messages, pc>>
       ELSE \E e \in ErrorTexts : ExceptHandler(e)
    /\ UNCHANGED setup
    /\ UNCHANGED <<session, screen, locals, accepted, dropped, log_at_start, stale_at_start, checks>>

\* variant: the exception of rag_pipeline.run leaves the script run uncaught
RunRaises_Uncaught ==
    /\ pc = "Retrieving"
    /\ pc' = "Idle"
    /\ user_query' = None
    /\ log_at_start' = <<>>
    /\ stale_at_start' = FALSE
    /\ checks' = 0
    /\ calls' = <<>>
    /\ UNCHANGED setup
    /\ UNCHANGED <<messages, session, screen, llm_response, retrieved_chunks,
                   accepted, dropped>>

RunRaises ==
    /\ pc = "Retrieving"
    /\ calls' = Append(calls, RunCall)
    /\ \E e \in ErrorTexts : ExceptHandler(e)
    /\ UNCHANGED setup
    /\ UNCHANGED <<session, screen, locals, accepted, dropped, log_at_start, stale_at_start, checks>>

\* variant: a malformed marker in the answer fails the turn
ReconcileAndAppend_Strict ==
    /\ pc = "Reconciling"
    /\ IF \E i \in 1..Len(llm_response) : llm_response[i] = "[" /\ ~MarkerAt(llm_response, i)
       THEN ExceptHandler("malformed citation")
       ELSE /\ LET result == process_citations(llm_response, retrieved_chunks)
               IN  messages' = Append(messages,
                                      AssistantTurn(format_response_with_citations(result[1]),
                                                    llm_response, result[2]))
            /\ pc' = "Appended"
    /\ UNCHANGED setup
    /\ UNCHANGED <<session, screen, locals, accepted, history>>

\* variant: every retrieved chunk is stored as a source
ReconcileAndAppend_Unfiltered ==
    /\ pc = "Reconciling"
    /\ LET result == process_citations(llm_response, retrieved_chunks)
       IN  messages' = Append(messages,
                              AssistantTurn(format_response_with_citations(result[1]),
                                            llm_response, retrieved_chunks))
    /\ pc' = "Appended"
    /\ UNCHANGED setup
    /\ UNCHANGED <<session, screen, locals, accepted, history>>

ReconcileAndAppend ==
    /\ pc = "Reconciling"
    /\ LET result                  == process_citations(llm_response, retrieved_chunks)
           processed_response      == result[1]
           cited_chunks_filtered   == result[2]
           formatted_response_html == format_response_with_citations(processed_response)
       IN  messages' = Append(messages,
                              AssistantTurn(formatted_response_html, llm_response,
                                            cited_chunks_filtered))
    /\ pc' = "Appended"
    /\ UNCHANGED setup
    /\ UNCHANGED <<session, screen, locals, accepted, history>>

\* the response is drawn and the script run ends
EndRun ==
    /\ pc \in {"Appended", "Faulted"}
    /\ pc' = "Idle"
    /\ user_query' = None
    /\ llm_response' = <<>>
    /\ retrieved_chunks' = <<>>
    /\ log_at_start' = <<>>
    /\ stale_at_start' = FALSE
    /\ checks' = 0
    /\ calls' = <<>>
    /\ UNCHANGED setup
    /\ UNCHANGED <<messages, session, screen, accepted, dropped>>

Next ==
    \/ ApiKeySaved
    \/ DrawApiKeyTabs
    \/ ContinuePressed
    \/ SetupStays
    \/ ProcessDocument
    \/ SwitchDocument
    \/ ChangeConfig
    \/ RenderWelcome
    \/ RenderSelectInfo
    \/ RenderChatNoQuery
    \/ SubmitQuery
    \/ ConfigCheckOk
    \/ ConfigCheckRaises
    \/ RunReturns
    \/ RunRaises
    \/ ReconcileAndAppend
    \/ EndRun

Spec == Init /\ [][Next]_vars

(***************************************************************************)
(* Reconciliation alone: a turn whose call has returned, over every answer *)
(* of up to MaxPieces pieces and a few evidence sets                       *)
(***************************************************************************)
MaxPieces == 4

\* plain text, stray brackets and digits, and whole markers
Pieces ==
    { <<"a">>, <<"[">>, <<"]">>, <<"1">>,
      <<"[", "1", "]">>, <<"[", "2", "]">>, <<"[", "9", "]">> }

RECURSIVE Texts(_)
Texts(n) ==
    IF n = 0 THEN { <<>> }
    ELSE LET T == Texts(n - 1)
         IN  T \cup { t \o p : t \in T, p \in Pieces }

CiteEvidenceSets == { <<>>, <<Passage(1)>>, <<Passage(1), Passage(2)>> }

RECURSIVE parse(_, _)
\* identifiers of the markers of text from position i on, left to right
parse(text, i) ==
    IF i > Len(text) THEN <<>>
    ELSE IF MarkerAt(text, i)
         THEN <<DigitVal(text[i + 1])>> \o parse(text, i + 3)
         ELSE parse(text, i + 1)

CiteInit ==
    /\ messages = <<UserTurn("q1")>>
    /\ config = [model_id |-> "m1"]
    /\ rag_pipeline = [built_from |-> config]
    /\ snapshot = config
    /\ processed_documents = [h \in {"d1"} |-> DocData(h)]
    /\ active_document_hash = "d1"
    /\ screen = "chat"
    /\ pc = "Reconciling"
    /\ user_query = "q1"
    /\ llm_response \in Texts(MaxPieces)
    /\ retrieved_chunks \in CiteEvidenceSets
    /\ accepted = 1
    /\ dropped = 0
    /\ log_at_start = <<>>
    /\ stale_at_start = FALSE
    /\ checks = 1
    /\ calls = << [ pipeline |-> rag_pipeline, query |-> "q1",
                    document_data |-> DocData("d1"), top_k |-> DefaultTopK,
                    stream |-> FALSE ] >>
    /\ show_api_setup = FALSE
    /\ openai_configured = FALSE
    /\ anthropic_configured = FALSE

CiteNext == ReconcileAndAppend

SpecCite == CiteInit /\ [][CiteNext]_vars

\* the steps of a running turn; each is a blocking call that returns or raises
TurnStep ==
    \/ ConfigCheckOk
    \/ ConfigCheckRaises
    \/ RunReturns
    \/ RunRaises
    \/ ReconcileAndAppend

FairSpec == Spec /\ WF_vars(TurnStep)

Terminal == pc \in {"Appended", "Faulted"}

InFlight == pc \in {"ConfigCheck", "Retrieving", "Reconciling"}

TypeOK ==
    /\ pc \in {"Idle", "SetupButton", "ConfigCheck", "Retrieving", "Reconciling",
              "Appended", "Faulted"}
    /\ show_api_setup \in BOOLEAN
    /\ config \in Configs
    /\ snapshot \in Configs
    /\ Len(messages) <= 2 * MaxTurns

(***************************************************************************)
(* Claims                                                                  *)
(***************************************************************************)

\* C1: when the configuration check or the retrieval-generation call of a turn
\* starts, the log is the log at acceptance plus the user's turn (role=user,
\* content the submitted text); and when the turn has ended, in Appended or in
\* Faulted, that user turn is still at its place, over the same earlier log.
C1_UserTurnFirst ==
    /\ [][ (checks' > checks \/ Len(calls') > Len(calls))
             => messages = Append(log_at_start, UserTurn(user_query)) ]_vars
    /\ [](Terminal =>
            /\ Len(messages) = Len(log_at_start) + 2
            /\ SubSeq(messages, 1, Len(log_at_start) + 1)
                   = Append(log_at_start, UserTurn(user_query)))

\* a turn that faulted in retrieval, after a first exchange, with its user turn kept
C1_Witness ==
    /\ pc = "Faulted"
    /\ checks = 1
    /\ Len(calls) = 1
    /\ Len(log_at_start) = 2
    /\ messages[3] = UserTurn(user_query)

C3_FaultTurnShape ==
    pc = "Faulted" =>
        /\ Last(messages).role = "assistant"
        /\ Last(messages).content # ""
        /\ Len(Last(messages).content) > 0
        /\ Last(messages).sources = <<>>
        /\ SubSeq(messages, 1, Len(messages) - 1)
               = Append(log_at_start, UserTurn(user_query))

\* retrieval raised an exception whose text is empty
C3_Witness ==
    /\ pc = "Faulted"
    /\ Len(calls) = 1
    /\ Last(messages).content = "Error: "
    /\ messages[Len(messages) - 1].role = "user"

\* C4: the retrieval-generation call of a turn is made after that turn's
\* configuration check, on the pipeline the session holds then, which is
\* built from the current configuration; once the check has passed, the
\* snapshot is the current configuration, also when it was not at the start
\* of the turn.
C4_FreshPipeline ==
    /\ [][ Len(calls') > Len(calls) =>
             /\ checks = 1
             /\ Last(calls').pipeline = rag_pipeline
             /\ Last(calls').pipeline.built_from = config ]_vars
    /\ [](pc \in {"Retrieving", "Reconciling", "Appended"} =>
             /\ checks = 1
             /\ snapshot = config
             /\ rag_pipeline = [built_from |-> config])

\* the configuration had changed since the pipeline was built, and retrieval
\* ran on a pipeline of the new configuration
C4_Witness ==
    /\ pc = "Reconciling"
    /\ stale_at_start
    /\ Len(calls) = 1
    /\ calls[1].pipeline.built_from = config

C6_SuccessTurnFields ==
    pc = "Appended" =>
        LET t == Last(messages)
            r == process_citations(llm_response, retrieved_chunks)
        IN  /\ DOMAIN t = {"role", "content", "raw_content", "sources"}
            /\ t.role = "assistant"
            /\ t.content = format_response_with_citations(r[1])
            /\ t.raw_content = llm_response
            /\ t.sources = r[2]

\* an answer citing one of two retrieved passages: one source kept, the
\* marker shown as an anchor, the raw answer kept as it came
C6_Witness ==
    /\ pc = "Appended"
    /\ llm_response = <<"a", "[", "1", "]">>
    /\ Len(retrieved_chunks) = 2
    /\ Last(messages).content = <<"a", "<cite:1>">>
    /\ Last(messages).raw_content = <<"a", "[", "1", "]">>
    /\ Last(messages).sources = <<Passage(1)>>

\* C7: as long as the active document stays the same, every step leaves the
\* log it found as a prefix of the log it leaves.
C7_AppendOnly ==
    [][ active_document_hash' = active_document_hash => IsPrefix(messages, messages') ]_vars

\* two exchanges on one document, the first faulted and the second answered
C7_Witness ==
    /\ Len(messages) = 4
    /\ "raw_content" \notin DOMAIN messages[2]
    /\ "raw_content" \in DOMAIN messages[4]

\* C8: a change of the active document leaves the log empty, and the first
\* turn on the new document ends with a log of exactly its user turn and its
\* assistant turn.
C8_SwitchClears ==
    /\ [][ active_document_hash' # active_document_hash => messages' = <<>> ]_vars
    /\ [](accepted = 0 => messages = <<>>)
    /\ []((Terminal /\ accepted = 1) =>
             /\ Len(messages) = 2
             /\ messages[1] = UserTurn(user_query)
             /\ messages[2].role = "assistant")

\* a switch cleared a log of two exchanges, and the first turn on the new
\* document has ended
C8_Witness ==
    /\ Terminal
    /\ accepted = 1
    /\ dropped = 4
    /\ Len(messages) = 2

C10_NoRetry ==
    /\ [](Len(calls) <= 1)
    /\ [][ Len(calls') > Len(calls) => (pc = "Retrieving" /\ calls = <<>>) ]_vars
    /\ [][ pc = "Faulted" => (pc' = "Idle" /\ messages' = messages) ]_vars

\* the one call of the turn failed and the turn is faulted
C10_Witness ==
    /\ pc = "Faulted"
    /\ Len(calls) = 1
    /\ calls[1].query = user_query

\* C11: every call of rag_pipeline.run is made with stream=False, with the
\* text of the turn's user message as query and with the processed data of
\* the active document as document_data.
C11_RunArguments ==
    \A i \in 1..Len(calls) :
        /\ calls[i].stream = FALSE
        /\ calls[i].query = user_query
        /\ calls[i].query = messages[Len(log_at_start) + 1].content
        /\ active_document_hash \in DOMAIN processed_documents
        /\ calls[i].document_data = processed_documents[active_document_hash]
        /\ calls[i].document_data = DocData(active_document_hash)

\* a call for the second of two loaded documents, with the second query
C11_Witness ==
    /\ Len(calls) = 1
    /\ DOMAIN processed_documents = {"d1", "d2"}
    /\ active_document_hash = "d2"
    /\ calls[1] = [pipeline |-> rag_pipeline, query |-> "q2",
                   document_data |-> "data:d2", top_k |-> TopK(config),
                   stream |-> FALSE]

\* C12: the top_k of every call is the top_k entry of the current
\* configuration, and 5 when the configuration has no such entry.
C12_TopKArgument ==
    \A i \in 1..Len(calls) :
        IF "top_k" \in DOMAIN config
        THEN calls[i].top_k = config.top_k
        ELSE calls[i].top_k = 5

\* a call under a configuration without top_k, after the configuration
\* had been changed
C12_Witness ==
    /\ Len(calls) = 1
    /\ stale_at_start
    /\ "top_k" \notin DOMAIN config
    /\ calls[1].top_k = 5

\* C13: no step of a turn, from the acceptance of the query to the end of the
\* script run, changes the configuration, the processed documents, the active
\* document or show_api_setup; the pipeline and its snapshot change only in
\* the configuration check.
C13_TurnFrame ==
    /\ [][ (pc \notin {"Idle", "SetupButton"} \/ pc' \notin {"Idle", "SetupButton"}) =>
             UNCHANGED <<config, processed_documents, active_document_hash,
                         show_api_setup>> ]_vars
    /\ [][ (rag_pipeline' # rag_pipeline \/ snapshot' # snapshot) =>
             (pc = "ConfigCheck" /\ config' = config) ]_vars

\* a turn that rebuilt the pipeline and was answered, under the configuration
\* it started with
C13_Witness ==
    /\ pc = "Appended"
    /\ stale_at_start
    /\ snapshot = config
    /\ "top_k" \in DOMAIN config

C18_ChatNeedsDocument ==
    /\ []((DOMAIN processed_documents = {} \/ active_document_hash = None) =>
             /\ screen # "chat"
             /\ messages = <<>>
             /\ calls = <<>>
             /\ pc \in {"Idle", "SetupButton"})
    /\ [][ (Len(messages') > Len(messages) \/ Len(calls') > Len(calls)) =>
             /\ DOMAIN processed_documents # {}
             /\ active_document_hash # None
             /\ active_document_hash \in DOMAIN processed_documents ]_vars

\* documents are processed, none is selected, and the hint was drawn
C18_Witness ==
    /\ DOMAIN processed_documents = {"d1", "d2"}
    /\ active_document_hash = None
    /\ screen = "select_document"
    /\ messages = <<>>

\* C19: a script run that draws the chat with no query (None or empty text)
\* leaves the log, the pipeline and its snapshot as they were and makes no
\* configuration check and no call of rag_pipeline.run.
C19_NoQueryNoEffect ==
    [][ (pc = "Idle" /\ pc' = "Idle" /\ screen' = "chat"
         /\ (user_query' # user_query \/ screen' # screen)) =>
            /\ ~Truthy(user_query')
            /\ UNCHANGED <<messages, rag_pipeline, snapshot, checks, calls, accepted>> ]_vars

\* the chat was drawn with an empty text over a log of one exchange
C19_Witness ==
    /\ pc = "Idle"
    /\ screen = "chat"
    /\ user_query = ""
    /\ Len(messages) = 2
    /\ checks = 0
    /\ calls = <<>>

\* C20: show_api_setup changes only to FALSE, in a step of the setup screen
\* taken at its button with OpenAI or Anthropic reported configured; with
\* neither configured the step at the button leaves it as it is.
C20_SetupDismissal ==
    /\ [][ show_api_setup' # show_api_setup =>
             /\ pc = "SetupButton"
             /\ openai_configured \/ anthropic_configured
             /\ show_api_setup' = FALSE ]_vars
    /\ [][ (pc = "SetupButton" /\ ~openai_configured /\ ~anthropic_configured) =>
             show_api_setup' = show_api_setup ]_vars

\* the setup screen was dismissed
C20_Witness ==
    /\ show_api_setup = FALSE
    /\ pc = "Idle"

\* C14: in the assistant turn of an answered turn, the display text holds no
\* marker and no anchor for an identifier outside the evidence set, holds no
\* marker syntax at all that was left unresolved, and every cited passage is
\* a passage of the turn's evidence set.
C14_NoUnresolvedMarkers ==
    pc = "Appended" =>
        LET text  == Last(messages).content
            cited == Last(messages).sources
            E     == retrieved_chunks
        IN  /\ \A i \in 1..Len(text) :
                   /\ ~MarkerAt(text, i)
                   /\ text[i] \notin MarkerTokens
                   /\ \A d \in Digits :
                          text[i] = AnchorToken(d) => DigitVal(d) \in Ids(E)
            /\ \A j \in 1..Len(cited) :
                   \E k \in 1..Len(E) : cited[j] = E[k]
            /\ \A k \in 1..Len(parse(llm_response, 1)) :
                   parse(llm_response, 1)[k] \notin Ids(E)
                       => parse(llm_response, 1)[k] \notin Ids(cited)

\* identifiers of the anchors of a display text, left to right
AnchorIds(text) ==
    LET IsAnchor(x) == \E d \in Digits : x = AnchorToken(d)
        anchors == SelectSeq(text, IsAnchor)
    IN  [ n \in 1..Len(anchors) |->
            DigitVal(CHOOSE d \in Digits : anchors[n] = AnchorToken(d)) ]

\* what does hold of the markers of the raw answer: each one naming a passage
\* of the evidence set becomes an anchor, each other one is removed with
\* nothing put in its place, and only passages of the evidence set are cited
C14_MarkersOfAnswerReconciled ==
    pc = "Appended" =>
        LET text  == Last(messages).content
            cited == Last(messages).sources
            E     == retrieved_chunks
            ids   == parse(llm_response, 1)
            InE(x) == x \in Ids(E)
        IN  /\ AnchorIds(text) = SelectSeq(ids, InE)
            /\ Len(text) = Len(llm_response) - 3 * Len(ids) + Len(SelectSeq(ids, InE))
            /\ \A i \in 1..Len(text) : text[i] \notin MarkerTokens
            /\ Ids(cited) = { ids[k] : k \in 1..Len(ids) } \cap Ids(E)
            /\ \A j \in 1..Len(cited) : \E k \in 1..Len(E) : cited[j] = E[k]

\* first occurrences of a sequence of identifiers, in order
FirstCited(ids) ==
    LET keep == { k \in 1..Len(ids) : \A j \in 1..(k - 1) : ids[j] # ids[k] }
        nth(n) == CHOOSE k \in keep : Cardinality({ j \in keep : j < k }) = n - 1
    IN  [ n \in 1..Cardinality(keep) |-> ids[nth(n)] ]

\* C15: when every marker of the raw answer names a passage of the evidence
\* set, the cited evidence is the passages named, each once, in the order in
\* which their identifiers are first cited in the text.
C15_CitedInFirstCitationOrder ==
    (pc = "Appended" /\ \A k \in 1..Len(parse(llm_response, 1)) :
                            parse(llm_response, 1)[k] \in Ids(retrieved_chunks)) =>
        LET cited == Last(messages).sources
            first == FirstCited(parse(llm_response, 1))
        IN  /\ Len(cited) = Len(first)
            /\ \A n \in 1..Len(first) :
                   /\ cited[n].id = first[n]
                   /\ cited[n] = ChunkById(retrieved_chunks, first[n])
            /\ \A m, n \in 1..Len(cited) : cited[m].id = cited[n].id => m = n

\* passage 2 cited before passage 1 and once more after it
C15_Witness ==
    /\ pc = "Appended"
    /\ llm_response = <<"[", "2", "]", "[", "1", "]", "[", "2", "]">>
    /\ retrieved_chunks = <<Passage(1), Passage(2)>>
    /\ Last(messages).sources = <<Passage(2), Passage(1)>>
====
